---------------------------- MODULE Spec2Model ----------------------------
(***************************************************************************)
(* A model of matrix_io.py: the sparse row (SparseRow), the schema builder *)
(* (_get_header), the writer (SparseWriter) and the loader (SparseLoader). *)
(*                                                                         *)
(* Python values are records [k, v]: k is "flt" (a numpy float64) or "str" *)
(* (a text); v is a sequence of one-character strings: the text itself, or *)
(* for a float its str() representation.  An exception is the name of its  *)
(* Python class in a field err ("none": no exception).                     *)
(***************************************************************************)
EXTENDS Integers, Sequences, FiniteSets, TLC

VARIABLES
    row,      \* the SparseRow a caller holds: [st, header, defaults, numbers, values]
    wr,       \* the SparseWriter: [st, failed, header, defaults, numbers, pos]
    file,     \* the lines of the target file, each a sequence of fields
    written,  \* history: the dense rows write_dense_row has written
    ld,       \* the SparseLoader: [st, failed, header, defaults, numbers, pos]
    loaded,   \* the rows handed out: by the loader's iteration, by get_empty_row
    last,     \* the last call: its name, arguments, exception and result
    vids,     \* for each row of loaded, the identity of the dict its _values is
    calls     \* history: the write calls that have returned, [op, dense, sparse]

vars == <<row, wr, file, written, ld, loaded, last, vids, calls>>

---------------------------------------------------------------------------
(* Bounds of the model *)

\* the largest number of columns of a schema
MaxCols == 2
\* the largest number of sparse entries given to the SparseRow constructor
MaxCoo == 2
\* the largest number of rows written to a file
MaxRows == 2

---------------------------------------------------------------------------
(* Values *)

Flt(t) == [k |-> "flt", v |-> t]
Str(t) == [k |-> "str", v |-> t]

T0 == <<"0">>
T00 == <<"0", ".", "0">>
T1 == <<"1">>
T10 == <<"1", ".", "0">>
TNaN == <<"n", "a", "n">>
TX == <<"x">>

F0 == Flt(T00)
F1 == Flt(T10)
FNaN == Flt(TNaN)

None == [some |-> FALSE, val |-> <<>>]
Some(x) == [some |-> TRUE, val |-> x]

\* np.float64(v): a float stays, a text is parsed; ValueError when it is no number
float64(v) ==
    IF v.k = "flt" THEN [err |-> "none", val |-> v]
    ELSE IF v.v \in {T0, T00} THEN [err |-> "none", val |-> F0]
    ELSE IF v.v \in {T1, T10} THEN [err |-> "none", val |-> F1]
    ELSE IF v.v = TNaN THEN [err |-> "none", val |-> FNaN]
    ELSE [err |-> "ValueError", val |-> v]

is_num(v) == float64(v).err = "none"

\* Python's a == b: IEEE equality on floats (nan is not equal to itself), text
\* equality on texts, and False between a float and a text
PyEq(a, b) == a.k = b.k /\ a.v = b.v /\ ~(a.k = "flt" /\ a.v = TNaN)

\* str(v), as format() and csv.writer.writerow apply it
PyStr(v) == v.v

---------------------------------------------------------------------------
(* _get_header *)

RECURSIVE FirstBad(_, _, _)
\* the first index at which the coercion of the defaults raises, 0 when none does
FirstBad(defaults, numbers, i) ==
    IF i > Len(defaults) THEN 0
    ELSE IF i > Len(numbers) THEN i
    ELSE IF numbers[i] /\ ~is_num(defaults[i]) THEN i
    ELSE FirstBad(defaults, numbers, i + 1)

get_header(header, defaults, numbers, copy) ==
    LET fail(e) == [err |-> e, header |-> <<>>, defaults |-> <<>>, numbers |-> <<>>]
        nums == IF ~numbers.some
                THEN [i \in 1..Len(defaults) |-> is_num(defaults[i])]
                ELSE numbers.val
        bad == FirstBad(defaults, nums, 1)
        defs == IF copy
                THEN [i \in 1..Len(defaults) |->
                        IF nums[i] THEN float64(defaults[i]).val ELSE defaults[i]]
                ELSE defaults
    IN  IF ~header.some THEN fail("TypeError")
        ELSE IF Len(header.val) # Len(nums) THEN fail("ValueError")
        ELSE IF copy /\ bad # 0
             THEN fail(IF bad > Len(nums) THEN "IndexError" ELSE "ValueError")
        ELSE IF Len(header.val) # Len(defaults) THEN fail("ValueError")
        ELSE [err |-> "none", header |-> header.val, defaults |-> defs, numbers |-> nums]

---------------------------------------------------------------------------
(* The mapping _values: a Python dict, a sequence of <<key, value>> pairs in *)
(* insertion order                                                           *)

DictHas(d, key) == \E i \in 1..Len(d) : d[i][1] = key

DictGet(d, key) == d[CHOOSE i \in 1..Len(d) : d[i][1] = key][2]

\* d[key] = v: an existing key keeps its place, a new key goes last
DictSet(d, key, v) ==
    IF DictHas(d, key)
    THEN [i \in 1..Len(d) |-> IF d[i][1] = key THEN <<key, v>> ELSE d[i]]
    ELSE Append(d, <<key, v>>)

\* del d[key], the KeyError of a missing key swallowed
DictDel(d, key) == SelectSeq(d, LAMBDA e : e[1] # key)

---------------------------------------------------------------------------
(* SparseRow *)

NoRow == [st |-> "none", header |-> <<>>, defaults |-> <<>>, numbers |-> <<>>,
          values |-> <<>>]

\* seq[ix] of a Python list: a negative index counts from the end
PyIndex(seq, ix) ==
    IF ix >= 0 /\ ix < Len(seq) THEN [err |-> "none", val |-> seq[ix + 1]]
    ELSE IF ix < 0 /\ ix >= -Len(seq) THEN [err |-> "none", val |-> seq[Len(seq) + ix + 1]]
    ELSE [err |-> "IndexError", val |-> F0]

\* np.isnan(v): TypeError on a text
isnan(v) == IF v.k = "flt" THEN [err |-> "none", val |-> v.v = TNaN]
            ELSE [err |-> "TypeError", val |-> FALSE]

\* v == default or (np.isnan(v) and np.isnan(default)), v a float
NumIsDefault(v, default) ==
    IF PyEq(v, default) THEN [err |-> "none", val |-> TRUE]
    ELSE IF ~isnan(v).val THEN [err |-> "none", val |-> FALSE]
    ELSE isnan(default)

convert(r, fix, v) ==
    LET d == PyIndex(r.defaults, fix)
        n == PyIndex(r.numbers, fix)
        f == float64(v)
        e == NumIsDefault(f.val, d.val)
    IN  IF d.err # "none" THEN [err |-> d.err, v |-> v, is_d |-> FALSE]
        ELSE IF n.val = TRUE
        THEN IF f.err # "none" THEN [err |-> f.err, v |-> v, is_d |-> FALSE]
             ELSE [err |-> e.err, v |-> f.val, is_d |-> e.val]
        ELSE [err |-> "none", v |-> v, is_d |-> PyEq(v, d.val)]

check_range(r, fix) ==
    IF fix < 0 \/ fix >= Len(r.defaults) THEN "IndexError" ELSE "none"

\* the nested add of __init__: one sparse entry e = [err, fix, v], err the
\* exception of unpacking the pair or of int(fix)
add(r, e) ==
    LET c == convert(r, e.fix, e.v)
    IN  IF e.err # "none" THEN [err |-> e.err, row |-> r]
        ELSE IF check_range(r, e.fix) # "none" THEN [err |-> "IndexError", row |-> r]
        ELSE IF c.err # "none" THEN [err |-> c.err, row |-> r]
        ELSE IF ~c.is_d
             THEN [err |-> "none", row |-> [r EXCEPT !.values = DictSet(@, e.fix, c.v)]]
        ELSE [err |-> "none", row |-> r]

RECURSIVE AddAll(_, _, _)
\* for (fix, v) in coo: add(fix, v)
AddAll(r, coo, i) ==
    IF i > Len(coo) THEN [err |-> "none", row |-> r]
    ELSE LET a == add(r, coo[i])
         IN  IF a.err # "none" THEN a ELSE AddAll(a.row, coo, i + 1)

SparseRow_init(header, defaults, numbers, coo, copy) ==
    LET h == get_header(header, defaults, numbers, copy)
        r == [st |-> "ok", header |-> h.header, defaults |-> h.defaults,
              numbers |-> h.numbers, values |-> <<>>]
    IN  IF h.err # "none" THEN [err |-> h.err, row |-> NoRow]
        ELSE AddAll(r, coo, 1)

get(r, fix) ==
    IF DictHas(r.values, fix) THEN [err |-> "none", val |-> DictGet(r.values, fix)]
    ELSE PyIndex(r.defaults, fix)

getitem(r, fix) == get(r, fix)

\* list(row): RowIter yields row._get(ix) for ix = 0 .. len(row._defaults) - 1
iter(r) == [i \in 1..Len(r.defaults) |-> get(r, i - 1).val]

get_values(r) == r.values

RECURSIVE DenseLoop(_, _, _)
\* the loop of from_dense from position i of the dense row on
DenseLoop(r, dense, i) ==
    IF i > Len(dense) THEN [err |-> "none", row |-> r]
    ELSE LET c == convert(r, i - 1, dense[i])
         IN  IF c.err # "none" THEN [err |-> c.err, row |-> r]
             ELSE DenseLoop(IF c.is_d THEN r
                            ELSE [r EXCEPT !.values = DictSet(@, i - 1, c.v)],
                            dense, i + 1)

from_dense(r, dense) ==
    LET l == DenseLoop([r EXCEPT !.values = <<>>], dense, 1)
        last_fix == IF Len(dense) = 0 THEN 0 ELSE Len(dense) - 1
    IN  IF l.err # "none" THEN l
        ELSE [err |-> check_range(r, last_fix), row |-> l.row]

\* __setitem__ without the removal of a default-equal value: the fault that
\* C2_Elision excludes
setitem_NoElide(r, fix, v) ==
    LET c == convert(r, fix, v)
    IN  IF check_range(r, fix) # "none" THEN [err |-> "IndexError", row |-> r]
        ELSE IF c.err # "none" THEN [err |-> c.err, row |-> r]
        ELSE [err |-> "none", row |-> [r EXCEPT !.values = DictSet(@, fix, c.v)]]

\* __setitem__ dropping the entry of the column before it converts the value:
\* the fault that C18_FailureKeeps excludes
setitem_DropFirst(r, fix, v) ==
    LET c == convert(r, fix, v)
        dropped == [r EXCEPT !.values = DictDel(@, fix)]
    IN  IF check_range(r, fix) # "none" THEN [err |-> "IndexError", row |-> r]
        ELSE IF c.err # "none" THEN [err |-> c.err, row |-> dropped]
        ELSE IF c.is_d THEN [err |-> "none", row |-> dropped]
        ELSE [err |-> "none", row |-> [r EXCEPT !.values = DictSet(@, fix, c.v)]]

setitem(r, fix, v) ==
    LET c == convert(r, fix, v)
    IN  IF check_range(r, fix) # "none" THEN [err |-> "IndexError", row |-> r]
        ELSE IF c.err # "none" THEN [err |-> c.err, row |-> r]
        ELSE IF c.is_d
             THEN [err |-> "none", row |-> [r EXCEPT !.values = DictDel(@, fix)]]
        ELSE [err |-> "none", row |-> [r EXCEPT !.values = DictSet(@, fix, c.v)]]

\* __delitem__ without its except KeyError clause: the fault that C16_Delete
\* excludes
delitem_KeyError(r, fix) ==
    IF check_range(r, fix) # "none" THEN [err |-> "IndexError", row |-> r]
    ELSE IF ~DictHas(r.values, fix) THEN [err |-> "KeyError", row |-> r]
    ELSE [err |-> "none", row |-> [r EXCEPT !.values = DictDel(@, fix)]]

delitem(r, fix) ==
    IF check_range(r, fix) # "none" THEN [err |-> "IndexError", row |-> r]
    ELSE [err |-> "none", row |-> [r EXCEPT !.values = DictDel(@, fix)]]

clear(r) == [r EXCEPT !.values = <<>>]

---------------------------------------------------------------------------
(* The inputs of the calls *)

SeqsUpTo(S, n) == UNION {[1..k -> S] : k \in 0..n}

Digits == <<"0", "1", "2", "3", "4", "5", "6", "7", "8", "9">>

\* str(n) of an integer n >= 0
RECURSIVE IntToStr(_)
IntToStr(n) == IF n < 10 THEN <<Digits[n + 1]>>
               ELSE Append(IntToStr(n \div 10), Digits[(n % 10) + 1])

\* cell values a caller passes: floats, a text that parses as a float, a text
Values == {F0, F1, FNaN, Str(T0), Str(TX)}

\* column defaults a caller passes
DefaultValues == {F0, FNaN, Str(T0), Str(TX)}

\* the column names c0, c1, ... of a header of n columns
HeaderOf(n) == [i \in 1..n |-> <<"c">> \o IntToStr(i - 1)]

HeaderArgs == {HeaderOf(n) : n \in 0..MaxCols}

DefaultsArgs == SeqsUpTo(DefaultValues, MaxCols)

NumbersArgs == {None} \cup {Some(n) : n \in SeqsUpTo(BOOLEAN, MaxCols)}

\* column indices a caller passes, some of them outside [0, N)
Indices == (0 - MaxCols)..MaxCols

Entry(fix, v) == [err |-> "none", fix |-> fix, v |-> v]

\* values of the sparse entries a caller passes to the constructor
CooValues == {F0, F1, Str(TX)}

CooArgs == SeqsUpTo({Entry(fix, v) : fix \in (0 - 1)..MaxCols, v \in CooValues}, MaxCoo)

\* dense rows a caller passes: every row of up to MaxCols values, and a row of
\* MaxCols + 1 values, one more than any schema has columns
DenseArgs == SeqsUpTo(Values, MaxCols) \cup {[i \in 1..(MaxCols + 1) |-> F1]}

---------------------------------------------------------------------------
(* The state *)

\* st: "none" before construction, "open", "closed"; failed: the constructor
\* raised; pos: the number of lines the csv reader has consumed
NoFile == [st |-> "none", failed |-> FALSE, header |-> <<>>, defaults |-> <<>>,
           numbers |-> <<>>, pos |-> 0]

NoCall == [op |-> "none", header |-> None, defaults |-> None, numbers |-> None,
           copy |-> TRUE, coo |-> <<>>, fix |-> 0, v |-> F0, dense |-> <<>>,
           err |-> "none", ret |-> F0, rets |-> <<>>, rix |-> 0]

Init ==
    /\ row = NoRow
    /\ wr = NoFile
    /\ file = <<>>
    /\ written = <<>>
    /\ ld = NoFile
    /\ loaded = <<>>
    /\ last = NoCall
    /\ vids = <<>>
    /\ calls = <<>>

---------------------------------------------------------------------------
(* The calls on a SparseRow *)

\* row = SparseRow(header, defaults, numbers, copy=copy): no sparse entries,
\* the three lengths free
Construct ==
    /\ row.st = "none" /\ last.op = "none"
    /\ \E header \in HeaderArgs, defaults \in DefaultsArgs, numbers \in NumbersArgs,
          copy \in BOOLEAN :
          LET r == SparseRow_init(Some(header), defaults, numbers, <<>>, copy)
          IN  /\ row' = IF r.err = "none" THEN r.row ELSE row
              /\ last' = [NoCall EXCEPT !.op = "init", !.header = Some(header),
                            !.defaults = Some(defaults), !.numbers = numbers,
                            !.copy = copy, !.err = r.err]
    /\ UNCHANGED <<vids, calls, wr, file, written, ld, loaded>>

\* row = SparseRow(header, defaults, numbers, coo, copy): sparse entries, the
\* three lengths equal; the schema of the call is the one the row then holds
ConstructCoo ==
    /\ row.st = "none" /\ last.op = "none"
    /\ \E header \in HeaderArgs, defaults \in DefaultsArgs, numbers \in NumbersArgs,
          copy \in BOOLEAN, coo \in CooArgs :
          LET r == SparseRow_init(Some(header), defaults, numbers, coo, copy)
          IN  /\ Len(defaults) = Len(header)
              /\ numbers.some => Len(numbers.val) = Len(header)
              /\ Len(coo) > 0
              /\ row' = IF r.err = "none" THEN r.row ELSE row
              /\ last' = [NoCall EXCEPT !.op = "init", !.coo = coo, !.err = r.err]
    /\ UNCHANGED <<vids, calls, wr, file, written, ld, loaded>>

\* row[fix]
GetItem ==
    /\ row.st = "ok"
    /\ \E fix \in Indices :
          LET r == getitem(row, fix)
          IN  last' = [NoCall EXCEPT !.op = "get", !.fix = fix, !.err = r.err,
                         !.ret = r.val]
    /\ UNCHANGED <<vids, calls, row, wr, file, written, ld, loaded>>

\* row[fix] = v
SetItem ==
    /\ row.st = "ok"
    /\ \E fix \in Indices, v \in Values :
          LET r == setitem(row, fix, v)
          IN  /\ row' = r.row
              /\ last' = [NoCall EXCEPT !.op = "set", !.fix = fix, !.v = v,
                            !.err = r.err]
    /\ UNCHANGED <<vids, calls, wr, file, written, ld, loaded>>

\* del row[fix]
DelItem ==
    /\ row.st = "ok"
    /\ \E fix \in Indices :
          LET r == delitem(row, fix)
          IN  /\ row' = r.row
              /\ last' = [NoCall EXCEPT !.op = "del", !.fix = fix, !.err = r.err]
    /\ UNCHANGED <<vids, calls, wr, file, written, ld, loaded>>

\* row.clear()
Clear ==
    /\ row.st = "ok"
    /\ row' = clear(row)
    /\ last' = [NoCall EXCEPT !.op = "clear"]
    /\ UNCHANGED <<vids, calls, wr, file, written, ld, loaded>>

\* row.from_dense(dense)
FromDense ==
    /\ row.st = "ok"
    /\ \E dense \in DenseArgs :
          LET r == from_dense(row, dense)
          IN  /\ row' = r.row
              /\ last' = [NoCall EXCEPT !.op = "from_dense", !.dense = dense,
                            !.err = r.err]
    /\ UNCHANGED <<vids, calls, wr, file, written, ld, loaded>>

\* list(row)
Iter ==
    /\ row.st = "ok"
    /\ last' = [NoCall EXCEPT !.op = "iter", !.rets = iter(row)]
    /\ UNCHANGED <<vids, calls, row, wr, file, written, ld, loaded>>

NextRow == Construct \/ ConstructCoo \/ GetItem \/ SetItem \/ DelItem \/ Clear \/ FromDense \/ Iter

SpecRow == Init /\ [][NextRow]_vars

---------------------------------------------------------------------------
(* SparseWriter *)

\* dense rows a caller passes to write_dense_row
WriteValues == {F1, FNaN, Str(TX)}

WriteArgs == SeqsUpTo(WriteValues, MaxCols) \cup {[i \in 1..(MaxCols + 1) |-> F1]}

\* "{0}:{1}".format(fix, v)
Token(fix, v) == IntToStr(fix) \o <<":">> \o PyStr(v)

\* the line csv.writer.writerow(cells) writes: one field per cell, str() of it
CsvRow(cells) == [i \in 1..Len(cells) |-> PyStr(cells[i])]

\* SparseWriter.__init__ without the close() of its except clause: the fault
\* that C8_ClosedOnFailure excludes
SparseWriter_init_NoClose(header, defaults, numbers, copy) ==
    LET h == get_header(header, defaults, numbers, copy)
    IN  IF h.err # "none"
        THEN [err |-> h.err, wr |-> [NoFile EXCEPT !.st = "open", !.failed = TRUE],
              file |-> <<>>]
        ELSE [err |-> "none",
              wr |-> [NoFile EXCEPT !.st = "open", !.header = h.header,
                        !.defaults = h.defaults, !.numbers = h.numbers],
              file |-> <<h.header, CsvRow(h.defaults)>>]

\* SparseWriter.__init__ after BaseFile.__init__ has opened the target for
\* writing, which leaves it empty: the writer and the lines of the file
SparseWriter_init(header, defaults, numbers, copy) ==
    LET h == get_header(header, defaults, numbers, copy)
    IN  IF h.err # "none"
        THEN [err |-> h.err, wr |-> [NoFile EXCEPT !.st = "closed", !.failed = TRUE],
              file |-> <<>>]
        ELSE [err |-> "none",
              wr |-> [NoFile EXCEPT !.st = "open", !.header = h.header,
                        !.defaults = h.defaults, !.numbers = h.numbers],
              file |-> <<h.header, CsvRow(h.defaults)>>]

get_empty_row(w) == SparseRow_init(Some(w.header), w.defaults, Some(w.numbers), <<>>, FALSE).row

\* the line of write_sparse_row(sparse): one token for each pair, in the order given
SparseLine(sparse) == [i \in 1..Len(sparse) |-> Token(sparse[i][1], sparse[i][2])]

\* BaseFile.__exit__: drops _csv and leaves the file's own with-block, which
\* closes it
BaseFile_exit(w) == [w EXCEPT !.st = "closed"]

\* BaseFile.close: drops _csv and closes the file; closing a closed file does
\* nothing
BaseFile_close(w) == [w EXCEPT !.st = "closed"]

\* write_sparse_row with a csv writer that outlives close(): the fault that
\* C19_ClosedWriter excludes
write_sparse_row_Open(w, lines, sparse) ==
    [err |-> "none", file |-> Append(lines, SparseLine(sparse))]

\* write_sparse_row putting its line before the rows written so far: the fault
\* that C12_LineOrder excludes
write_sparse_row_Front(w, lines, sparse) ==
    IF w.st # "open" THEN [err |-> "AttributeError", file |-> lines]
    ELSE [err |-> "none",
          file |-> SubSeq(lines, 1, 2) \o <<SparseLine(sparse)>>
                   \o SubSeq(lines, 3, Len(lines))]

\* write_sparse_row on a writer w: AttributeError once close() has dropped _csv
write_sparse_row(w, lines, sparse) ==
    IF w.st # "open" THEN [err |-> "AttributeError", file |-> lines]
    ELSE [err |-> "none", file |-> Append(lines, SparseLine(sparse))]

write_dense_row(w, lines, values) ==
    LET d == from_dense(get_empty_row(w), values)
    IN  IF d.err # "none" THEN [err |-> d.err, file |-> lines]
        ELSE write_sparse_row(w, lines, get_values(d.row))

\* the record of a write call in the history calls
DenseCall(values) == [op |-> "write_dense_row", dense |-> values, sparse |-> <<>>]

SparseCall(sparse) == [op |-> "write_sparse_row", dense |-> <<>>, sparse |-> sparse]

\* wr = SparseWriter(fn, header, defaults, numbers, copy)
WriterInit ==
    /\ wr.st = "none"
    /\ ld.st = "none"
    /\ \E header \in HeaderArgs, defaults \in DefaultsArgs, numbers \in NumbersArgs,
          copy \in BOOLEAN :
          LET r == SparseWriter_init(Some(header), defaults, numbers, copy)
          IN  /\ wr' = r.wr
              /\ file' = r.file
              /\ last' = [NoCall EXCEPT !.op = "writer_init", !.header = Some(header),
                            !.defaults = Some(defaults), !.numbers = numbers,
                            !.copy = copy, !.err = r.err]
    /\ UNCHANGED <<vids, calls, row, written, ld, loaded>>

\* wr.write_dense_row(values)
WriteDenseRow ==
    /\ wr.st # "none" /\ ~wr.failed
    /\ ld.st = "none"
    /\ Len(calls) < MaxRows
    /\ \E values \in WriteArgs :
          LET r == write_dense_row(wr, file, values)
          IN  /\ file' = r.file
              /\ written' = IF r.err = "none" THEN Append(written, values) ELSE written
              /\ calls' = IF r.err = "none" THEN Append(calls, DenseCall(values))
                           ELSE calls
              /\ last' = [NoCall EXCEPT !.op = "write_dense_row", !.dense = values,
                            !.err = r.err]
    /\ UNCHANGED <<vids, row, wr, ld, loaded>>

\* wr.close()
WriterClose ==
    /\ wr.st # "none" /\ ~wr.failed
    /\ ld.st = "none"
    /\ wr' = BaseFile_close(wr)
    /\ last' = [NoCall EXCEPT !.op = "writer_close"]
    /\ UNCHANGED <<vids, calls, row, file, written, ld, loaded>>

---------------------------------------------------------------------------
(* SparseLoader *)

\* the first place of ch in text, 0 when it has none
FirstIndex(text, ch) ==
    IF \E i \in 1..Len(text) : text[i] = ch
    THEN CHOOSE i \in 1..Len(text) : text[i] = ch /\ \A j \in 1..(i - 1) : text[j] # ch
    ELSE 0

DigitValue(ch) == CHOOSE d \in 0..9 : Digits[d + 1] = ch

IsDigit(ch) == \E d \in 1..10 : Digits[d] = ch

RECURSIVE DigitsValue(_)
DigitsValue(text) ==
    IF Len(text) = 0 THEN 0
    ELSE 10 * DigitsValue(SubSeq(text, 1, Len(text) - 1)) + DigitValue(text[Len(text)])

\* int(text): an optional sign and decimal digits, ValueError otherwise
ParseInt(text) ==
    LET signed == Len(text) > 0 /\ text[1] \in {"-", "+"}
        body == IF signed THEN Tail(text) ELSE text
    IN  IF Len(body) = 0 \/ \E i \in 1..Len(body) : ~IsDigit(body[i])
        THEN [err |-> "ValueError", val |-> 0]
        ELSE [err |-> "none",
              val |-> IF signed /\ text[1] = "-" THEN 0 - DigitsValue(body)
                      ELSE DigitsValue(body)]

\* one field e of a line as the sparse entry the constructor's loop makes of
\* e.split(':', 1): a field without ':' does not unpack into (fix, v), and
\* int(fix) raises on a text that is no integer
DecodeField(e) ==
    LET c == FirstIndex(e, ":")
        n == ParseInt(SubSeq(e, 1, c - 1))
    IN  IF c = 0 THEN [err |-> "ValueError", fix |-> 0, v |-> Str(e)]
        ELSE [err |-> n.err, fix |-> n.val, v |-> Str(SubSeq(e, c + 1, Len(e)))]

DecodeLine(line) == [i \in 1..Len(line) |-> DecodeField(line[i])]

\* the cells of a line the csv reader returns: texts
CsvCells(line) == [i \in 1..Len(line) |-> Str(line[i])]

\* one dict for the _values of every row, as a class attribute would be: the
\* fault that C15_RowsIndependent excludes
NewDict_Shared(ids) == 1

\* self._values = {}: a dict of its own, with an identity no live row's dict has
NewDict(ids) ==
    CHOOSE n \in 1..(Len(ids) + 1) :
        /\ \A i \in 1..Len(ids) : ids[i] # n
        /\ \A m \in 1..(n - 1) : \E i \in 1..Len(ids) : ids[i] = m

\* SparseLoader.__init__ after BaseFile.__init__ has opened the file for reading
SparseLoader_init(lines, header, defaults, numbers, copy) ==
    LET fail(e) == [err |-> e, ld |-> [NoFile EXCEPT !.st = "closed", !.failed = TRUE]]
        p1 == IF header.some THEN 0 ELSE 1
        p2 == IF defaults.some THEN p1 ELSE p1 + 1
        defs == IF defaults.some THEN defaults.val ELSE CsvCells(lines[p2])
        h == get_header(header, defs, numbers, copy)
    IN  IF p2 > Len(lines) THEN fail("StopIteration")
        ELSE IF h.err # "none" THEN fail(h.err)
        ELSE [err |-> "none",
              ld |-> [NoFile EXCEPT !.st = "open", !.header = h.header,
                        !.defaults = h.defaults, !.numbers = h.numbers, !.pos = p2]]

\* SparseLoader.__next__ on an open loader
SparseLoader_next(l, lines) ==
    IF l.pos >= Len(lines) THEN [err |-> "StopIteration", row |-> NoRow, pos |-> l.pos]
    ELSE LET r == SparseRow_init(Some(l.header), l.defaults, Some(l.numbers),
                                 DecodeLine(lines[l.pos + 1]), FALSE)
         IN  [err |-> r.err, row |-> r.row, pos |-> l.pos + 1]

\* ld = SparseLoader(fn, header, defaults, numbers, copy) on the file the
\* writer has closed; a caller who passes a schema passes the writer's
LoaderInit ==
    /\ wr.st = "closed"
    /\ ld.st = "none"
    /\ \E header \in {None} \cup {Some(h) : h \in HeaderArgs},
          defaults \in {None, Some(wr.defaults)},
          numbers \in {None, Some(wr.numbers)}, copy \in BOOLEAN :
          LET r == SparseLoader_init(file, header, defaults, numbers, copy)
          IN  /\ ld' = r.ld
              /\ last' = [NoCall EXCEPT !.op = "loader_init", !.header = header,
                            !.defaults = defaults, !.numbers = numbers,
                            !.copy = copy, !.err = r.err]
    /\ UNCHANGED <<vids, calls, row, wr, file, written, loaded>>

\* next(ld)
LoaderNext ==
    /\ ld.st = "open"
    /\ LET r == SparseLoader_next(ld, file)
       IN  /\ ld' = [ld EXCEPT !.pos = r.pos]
           /\ loaded' = IF r.err = "none" THEN Append(loaded, r.row) ELSE loaded
           /\ vids' = IF r.err = "none" THEN Append(vids, NewDict(vids)) ELSE vids
           /\ last' = [NoCall EXCEPT !.op = "loader_next", !.err = r.err]
    /\ UNCHANGED <<calls, row, wr, file, written>>

\* ld.close()
LoaderClose ==
    /\ ld.st = "open"
    /\ ld' = [ld EXCEPT !.st = "closed"]
    /\ last' = [NoCall EXCEPT !.op = "loader_close"]
    /\ UNCHANGED <<vids, calls, row, wr, file, written, loaded>>

NextFile == WriterInit \/ WriteDenseRow \/ WriterClose \/ LoaderInit \/ LoaderNext
            \/ LoaderClose

SpecFile == Init /\ [][NextFile]_vars

---------------------------------------------------------------------------
(* A loader on a file the caller brings *)

\* the largest number of fields of a line of such a file
MaxFields == 2

\* the fields of its lines: "0:1", "0:0", "1:x:y", and "x", which has no ':'
LoadFields ==
    {<<"0", ":", "1">>, <<"0", ":", "0">>, <<"1", ":", "x", ":", "y">>, <<"x">>}

LoadLines == SeqsUpTo(LoadFields, MaxFields)

LoadFiles == SeqsUpTo(LoadLines, MaxRows)

InitLoad ==
    /\ row = NoRow
    /\ wr = NoFile
    /\ file \in LoadFiles
    /\ written = <<>>
    /\ ld = NoFile
    /\ loaded = <<>>
    /\ last = NoCall
    /\ vids = <<>>
    /\ calls = <<>>

\* ld = SparseLoader(fn, header, defaults, numbers, copy) on the caller's file
LoaderOpen ==
    /\ wr.st = "none"
    /\ ld.st = "none" /\ last.op = "none"
    /\ \E header \in {None} \cup {Some(h) : h \in HeaderArgs},
          defaults \in {None} \cup {Some(d) : d \in DefaultsArgs},
          numbers \in NumbersArgs, copy \in BOOLEAN :
          LET r == SparseLoader_init(file, header, defaults, numbers, copy)
          IN  /\ ld' = r.ld
              /\ last' = [NoCall EXCEPT !.op = "loader_init", !.err = r.err]
    /\ UNCHANGED <<vids, calls, row, wr, file, written, loaded>>

NextLoad == LoaderOpen \/ LoaderNext \/ LoaderClose

SpecLoad == InitLoad /\ [][NextLoad]_vars

---------------------------------------------------------------------------
(* A writer on a target that may hold lines of former use *)

\* the lines the target holds before the writer is constructed
OldFile == <<<<TX>>>>

\* the pairs a caller passes to write_sparse_row, in any order
SparsePairs == {<<0, F1>>, <<1, Str(TX)>>}

SparseArgs == SeqsUpTo(SparsePairs, MaxCoo)

InitWriter ==
    /\ row = NoRow
    /\ wr = NoFile
    /\ file \in {<<>>, OldFile}
    /\ written = <<>>
    /\ ld = NoFile
    /\ loaded = <<>>
    /\ last = NoCall
    /\ vids = <<>>
    /\ calls = <<>>

\* wr.write_sparse_row(sparse)
WriteSparseRow ==
    /\ wr.st # "none" /\ ~wr.failed
    /\ ld.st = "none"
    /\ Len(calls) < MaxRows
    /\ \E sparse \in SparseArgs :
          LET r == write_sparse_row(wr, file, sparse)
          IN  /\ file' = r.file
              /\ calls' = IF r.err = "none" THEN Append(calls, SparseCall(sparse))
                           ELSE calls
              /\ last' = [NoCall EXCEPT !.op = "write_sparse_row", !.coo = sparse,
                            !.err = r.err]
    /\ UNCHANGED <<vids, row, wr, written, ld, loaded>>

\* leaving the block of "with wr:"
WriterExit ==
    /\ wr.st # "none" /\ ~wr.failed
    /\ ld.st = "none"
    /\ wr' = BaseFile_exit(wr)
    /\ last' = [NoCall EXCEPT !.op = "writer_exit"]
    /\ UNCHANGED <<vids, calls, row, file, written, ld, loaded>>

NextWriter == WriterInit \/ WriteDenseRow \/ WriteSparseRow \/ WriterClose
              \/ WriterExit

SpecWriter == InitWriter /\ [][NextWriter]_vars

---------------------------------------------------------------------------
(* The rows a loader or a writer has handed out, in the hands of a caller *)

\* the lines of the file the loader reads here
ShareLines == {<<>>, <<<<"0", ":", "1">>>>}

ShareFiles == SeqsUpTo(ShareLines, MaxRows)

\* what the caller sets cells to, and the dense rows it passes
ShareValues == {F1}

ShareDense == SeqsUpTo(ShareValues, MaxCols)

InitShare ==
    /\ row = NoRow
    /\ wr = NoFile
    /\ file \in ShareFiles
    /\ written = <<>>
    /\ ld = NoFile
    /\ loaded = <<>>
    /\ last = NoCall
    /\ vids = <<>>
    /\ calls = <<>>

\* the identities ids without that of row i
Others(ids, i) == SubSeq(ids, 1, i - 1) \o SubSeq(ids, i + 1, Len(ids))

\* a statement that changes the dict of row i in place, to the mapping values:
\* every row whose _values is that dict sees the change
InPlace(rows, ids, i, values) ==
    [j \in 1..Len(rows) |->
        IF ids[j] = ids[i] THEN [rows[j] EXCEPT !.values = values] ELSE rows[j]]

\* wr.get_empty_row()
GetEmptyRow ==
    /\ wr.st # "none" /\ ~wr.failed
    /\ Len(loaded) < MaxRows
    /\ loaded' = Append(loaded, get_empty_row(wr))
    /\ vids' = Append(vids, NewDict(vids))
    /\ last' = [NoCall EXCEPT !.op = "get_empty_row"]
    /\ UNCHANGED <<calls, row, wr, file, written, ld>>

\* loaded[i][fix] = v: __setitem__ assigns into, or deletes from, the dict
RowSet ==
    \E i \in 1..Len(loaded), fix \in 0..(MaxCols - 1), v \in ShareValues :
        LET r == setitem(loaded[i], fix, v)
        IN  /\ loaded' = InPlace(loaded, vids, i, r.row.values)
            /\ last' = [NoCall EXCEPT !.op = "row_set", !.rix = i, !.err = r.err]
            /\ UNCHANGED <<vids, calls, row, wr, file, written, ld>>

\* del loaded[i][fix]: __delitem__ deletes from the dict
RowDel ==
    \E i \in 1..Len(loaded), fix \in 0..(MaxCols - 1) :
        LET r == delitem(loaded[i], fix)
        IN  /\ loaded' = InPlace(loaded, vids, i, r.row.values)
            /\ last' = [NoCall EXCEPT !.op = "row_del", !.rix = i, !.err = r.err]
            /\ UNCHANGED <<vids, calls, row, wr, file, written, ld>>

\* loaded[i].clear(): self._values = {} binds the row to a dict of its own
RowClear ==
    \E i \in 1..Len(loaded) :
        /\ loaded' = [loaded EXCEPT ![i] = clear(@)]
        /\ vids' = [vids EXCEPT ![i] = NewDict(Others(vids, i))]
        /\ last' = [NoCall EXCEPT !.op = "row_clear", !.rix = i]
        /\ UNCHANGED <<calls, row, wr, file, written, ld>>

\* loaded[i].from_dense(dense): self._values = {} binds the row to a dict of
\* its own, which the loop then fills
RowFromDense ==
    \E i \in 1..Len(loaded), dense \in ShareDense :
        LET r == from_dense(loaded[i], dense)
        IN  /\ loaded' = [loaded EXCEPT ![i] = r.row]
            /\ vids' = [vids EXCEPT ![i] = NewDict(Others(vids, i))]
            /\ last' = [NoCall EXCEPT !.op = "row_from_dense", !.rix = i,
                          !.err = r.err]
            /\ UNCHANGED <<calls, row, wr, file, written, ld>>

NextShare == LoaderOpen \/ LoaderNext \/ WriterInit \/ GetEmptyRow \/ RowSet
             \/ RowDel \/ RowClear \/ RowFromDense

SpecShare == InitShare /\ [][NextShare]_vars

---------------------------------------------------------------------------
(* The notions the properties are stated in *)

IsNaN(v) == v.k = "flt" /\ v.v = TNaN

\* the default-equality rule: on a numeric column equal or both NaN, on a text
\* column equal
DefaultEqual(numeric, v, d) ==
    IF numeric THEN PyEq(v, d) \/ (IsNaN(v) /\ IsNaN(d)) ELSE PyEq(v, d)

\* a cell of a dense row against the cell read back from a row
CellEqual(numeric, given, got) ==
    IF numeric THEN DefaultEqual(TRUE, float64(given).val, got)
    ELSE DefaultEqual(FALSE, given, got)

\* the number of columns of a row, a writer or a loader
NCols(r) == Len(r.defaults)

\* numeric columns hold float defaults, text columns hold text defaults
TypedSchema(r) ==
    \A i \in 1..NCols(r) : r.defaults[i].k = (IF r.numbers[i] THEN "flt" ELSE "str")

\* a dense row gives a number for every numeric column and a text for every
\* text column it covers
TypedDense(r, dense) ==
    \A i \in 1..Len(dense) : i <= NCols(r) =>
        IF r.numbers[i] THEN is_num(dense[i]) ELSE dense[i].k = "str"

OutOfRange(r, fix) == fix < 0 \/ fix >= NCols(r)

---------------------------------------------------------------------------
(* C1 *)

\* the dense views of the loaded rows are those of the written rows, in order
SameRows ==
    /\ Len(loaded) = Len(written)
    /\ \A i \in 1..Len(loaded) :
          /\ NCols(loaded[i]) = Len(written[i])
          /\ \A c \in 1..Len(written[i]) :
                CellEqual(wr.numbers[c], written[i][c], iter(loaded[i])[c])

\* C1: rows written with write_dense_row and read back with a SparseLoader on
\* the written file come back in the same number and order with equal dense
\* views: the loader opens the file of a writer, and once its iteration has
\* reached the end of the file the loaded rows are the written rows.
C1_RoundTrip ==
    /\ (last.op = "loader_init" /\ ~wr.failed /\ ~last.header.some
          /\ ~last.defaults.some) => last.err = "none"
    /\ (last.op = "loader_next" /\ last.err = "StopIteration") => SameRows

---------------------------------------------------------------------------
(* C2 *)

\* C2: the stored mapping of a row holds no index whose stored value is
\* default-equal to the default of its column (and only indices of columns,
\* each once), after construction and after every set, delete, clear and
\* from_dense.
C2_Elision ==
    row.st = "ok" =>
        \A i \in 1..Len(row.values) :
            LET fix == row.values[i][1]
                v == row.values[i][2]
            IN  /\ ~OutOfRange(row, fix)
                /\ \A j \in 1..Len(row.values) : row.values[j][1] = fix => j = i
                /\ ~DefaultEqual(row.numbers[fix + 1], v, row.defaults[fix + 1])

\* a set of a default-equal value has just removed the entry of its column
\* from a row that still stores another cell
C2_Witness ==
    /\ row.st = "ok" /\ last.op = "set" /\ last.err = "none"
    /\ convert(row, last.fix, last.v).is_d
    /\ ~DictHas(row.values, last.fix)
    /\ Len(row.values) > 0

---------------------------------------------------------------------------
(* C3 *)

\* C3: on a typed schema of N columns, N = 0 included, from_dense of a typed
\* dense row of N values succeeds and the iteration of the row then yields N
\* values equal to the given ones column by column.
C3_DenseRoundTrip ==
    (/\ row.st = "ok" /\ last.op = "from_dense"
     /\ TypedSchema(row) /\ TypedDense(row, last.dense)
     /\ Len(last.dense) = NCols(row))
    => /\ last.err = "none"
       /\ Len(iter(row)) = NCols(row)
       /\ \A c \in 1..NCols(row) :
             CellEqual(row.numbers[c], last.dense[c], iter(row)[c])

---------------------------------------------------------------------------
(* C4 *)

\* C4: get, set and delete with an index outside [0, N) raise IndexError.
C4_OutOfRange ==
    (row.st = "ok" /\ last.op \in {"get", "set", "del"} /\ OutOfRange(row, last.fix))
    => last.err = "IndexError"

---------------------------------------------------------------------------
(* C5 *)

\* C5: from_dense of a (typed) dense row whose length is not N raises
\* IndexError, for a shorter row as for a longer one.
C5_DenseLength ==
    (/\ row.st = "ok" /\ last.op = "from_dense"
     /\ TypedSchema(row) /\ TypedDense(row, last.dense)
     /\ Len(last.dense) # NCols(row))
    => last.err = "IndexError"

---------------------------------------------------------------------------
(* C6 *)

\* C6: a loader constructed without header and without defaults on a file
\* whose first two lines have the same number of fields succeeds, has consumed
\* exactly these two lines, and holds the fields of line 1 as its header and
\* those of line 2 as its defaults.
C6_ReadsSchema ==
    (/\ last.op = "loader_init" /\ ~last.header.some /\ ~last.defaults.some
     /\ Len(file) >= 2 /\ Len(file[1]) = Len(file[2]))
    => /\ last.err = "none"
       /\ ld.st = "open" /\ ld.pos = 2
       /\ ld.header = file[1]
       /\ CsvRow(ld.defaults) = file[2]

---------------------------------------------------------------------------
(* C7 *)

\* the lengths of the names, the defaults and the numeric flags of a call,
\* the flags inferred from the defaults when they are not given
ArgLengths(c) ==
    {Len(c.header.val), Len(c.defaults.val)}
        \cup (IF c.numbers.some THEN {Len(c.numbers.val)} ELSE {})

\* C7: a construction whose names, defaults and numeric flags are not all of
\* one length raises ValueError and nothing else.
C7_SchemaMismatch ==
    (/\ last.op \in {"init", "writer_init", "loader_init"}
     /\ last.header.some /\ last.defaults.some
     /\ Cardinality(ArgLengths(last)) > 1)
    => last.err = "ValueError"

---------------------------------------------------------------------------
(* C8 *)

\* C8: a writer or loader whose construction has failed holds a closed
\* transport.
C8_ClosedOnFailure ==
    /\ wr.failed => wr.st = "closed"
    /\ ld.failed => ld.st = "closed"

\* the construction of the writer has failed, and so has that of the loader
C8_Witness ==
    /\ wr.failed /\ ld.failed
    /\ last.op = "loader_init" /\ last.err # "none"

---------------------------------------------------------------------------
(* C9 *)

\* the place of the last entry of coo for index fix, 0 when it has none
LastEntry(coo, fix) ==
    IF \E j \in 1..Len(coo) : coo[j].fix = fix
    THEN CHOOSE j \in 1..Len(coo) :
            coo[j].fix = fix /\ \A k \in (j + 1)..Len(coo) : coo[k].fix # fix
    ELSE 0

\* C9: in a row constructed from sparse entries, the cell of an index that
\* occurs in the entries is the converted value of the last entry for it.
C9_LastWins ==
    (row.st = "ok" /\ last.op = "init" /\ last.err = "none")
    => \A fix \in 0..(NCols(row) - 1) :
          LastEntry(last.coo, fix) # 0 =>
             getitem(row, fix).val
                = convert(row, fix, last.coo[LastEntry(last.coo, fix)].v).v

---------------------------------------------------------------------------
(* C10 *)

RECURSIVE ExpectedTokens(_, _, _)
\* the tokens of the columns from c on whose value is not default-equal
ExpectedTokens(w, dense, c) ==
    IF c > Len(dense) THEN <<>>
    ELSE LET v == IF w.numbers[c] THEN float64(dense[c]).val ELSE dense[c]
             rest == ExpectedTokens(w, dense, c + 1)
         IN  IF DefaultEqual(w.numbers[c], v, w.defaults[c]) THEN rest
             ELSE <<Token(c - 1, v)>> \o rest

\* C10: write_dense_row of a (typed) dense row of N values on an open writer
\* adds one line, which holds the token of each column whose value is not
\* default-equal, in ascending column order, and nothing else: no field at all
\* for a row of defaults.
C10_DenseLine ==
    (/\ last.op = "write_dense_row" /\ wr.st = "open"
     /\ TypedSchema(wr) /\ TypedDense(wr, last.dense)
     /\ Len(last.dense) = NCols(wr))
    => /\ last.err = "none"
       /\ Len(file) = 2 + Len(written)
       /\ file[Len(file)] = ExpectedTokens(wr, last.dense, 1)

---------------------------------------------------------------------------
(* C11 *)

\* the place of the first ':' of a field, 0 when it has none
FirstColon(e) ==
    IF \A c \in 1..Len(e) : e[c] # ":" THEN 0
    ELSE CHOOSE c \in 1..Len(e) : e[c] = ":" /\ \A k \in 1..(c - 1) : e[k] # ":"

\* the column a field names and the text it gives the column
FieldColumn(e) == ParseInt(SubSeq(e, 1, FirstColon(e) - 1)).val

FieldText(e) == SubSeq(e, FirstColon(e) + 1, Len(e))

\* the fields of a line that name column c
FieldsOf(line, c) == {i \in 1..Len(line) : FieldColumn(line[i]) = c}

\* the cell a text becomes on a column
ConvertedText(numeric, text) == IF numeric THEN float64(Str(text)).val ELSE Str(text)

\* the row r is the decoding of the line: a column a field names reads the
\* converted text of the last field naming it, any other column its default
DecodedAs(r, line) ==
    \A c \in 0..(NCols(r) - 1) :
        LET fs == FieldsOf(line, c)
            i == CHOOSE j \in fs : \A k \in fs : k <= j
        IN  IF fs = {} THEN getitem(r, c).val = r.defaults[c + 1]
            ELSE DefaultEqual(r.numbers[c + 1],
                              ConvertedText(r.numbers[c + 1], FieldText(line[i])),
                              getitem(r, c).val)

\* C11: each step of the loader's iteration that returns a row has consumed
\* exactly one line and hands out one more row, the decoding of that line: every
\* field is split at its first ':' only, the cell at the integer before it gets
\* the converted text after it, a column no field names reads its default, and
\* a line of zero fields decodes to the all-default row.
C11_DecodeLine ==
    [][(last'.op = "loader_next" /\ last'.err = "none") =>
          /\ ld'.pos = ld.pos + 1
          /\ Len(loaded') = Len(loaded) + 1
          /\ SubSeq(loaded', 1, Len(loaded)) = loaded
          /\ DecodedAs(loaded'[Len(loaded')], file[ld'.pos])]_vars

---------------------------------------------------------------------------
(* C12 *)

\* the line a completed write call has added: of write_sparse_row the tokens of
\* its pairs in the order given, of write_dense_row the tokens of the cells
\* that differ from their default, in ascending column order
CallLine(w, c) ==
    IF c.op = "write_sparse_row"
    THEN [i \in 1..Len(c.sparse) |->
            IntToStr(c.sparse[i][1]) \o <<":">> \o PyStr(c.sparse[i][2])]
    ELSE ExpectedTokens(w, c.dense, 1)

---------------------------------------------------------------------------
(* C13 *)

\* the rows a and b agree on every column but fix: the same stored entry or
\* none, and the same cell
SameElsewhere(a, b, fix) ==
    \A j \in 0..(NCols(a) - 1) : j # fix =>
        /\ DictHas(a.values, j) = DictHas(b.values, j)
        /\ getitem(a, j) = getitem(b, j)

\* C13: on every row and from every state of it, setting an in-range column
\* to the very default of the column leaves no stored entry at the column, a
\* following get returns that default, setting it once more changes nothing,
\* and every other column is as it was.
C13_SetDefault ==
    [][(/\ last'.op = "set"
        /\ ~OutOfRange(row, last'.fix)
        /\ last'.v = row.defaults[last'.fix + 1]) =>
          /\ last'.err = "none"
          /\ ~DictHas(row'.values, last'.fix)
          /\ getitem(row', last'.fix) = [err |-> "none", val |-> last'.v]
          /\ setitem(row', last'.fix, last'.v) = [err |-> "none", row |-> row']
          /\ SameElsewhere(row, row', last'.fix)]_vars

---------------------------------------------------------------------------
(* C14 *)

\* C14: the construction of a SparseWriter that fails with a schema mismatch
\* (names, defaults and numeric flags not all of one length, ValueError) has
\* had no effect on the target: no names line and no defaults line is written,
\* and the lines the target held before are the lines it holds after.
C14_NoSideEffect ==
    [][(/\ last'.op = "writer_init"
        /\ Cardinality(ArgLengths(last')) > 1
        /\ last'.err = "ValueError") => file' = file]_vars

---------------------------------------------------------------------------
(* C15 *)

RowCalls == {"row_set", "row_del", "row_clear", "row_from_dense"}

\* C15: the rows a loader's iteration and a writer's get_empty_row hand out
\* share the schema only: a set, delete, clear or from_dense on one of them
\* leaves every other row as it was, the stored mapping included, and leaves
\* the names, defaults and numeric flags of the row itself, of the loader and
\* of the writer as they were.
C15_RowsIndependent ==
    [][last'.op \in RowCalls =>
          /\ Len(loaded') = Len(loaded)
          /\ \A j \in 1..Len(loaded) : j # last'.rix => loaded'[j] = loaded[j]
          /\ loaded'[last'.rix].header = loaded[last'.rix].header
          /\ loaded'[last'.rix].defaults = loaded[last'.rix].defaults
          /\ loaded'[last'.rix].numbers = loaded[last'.rix].numbers
          /\ ld' = ld /\ wr' = wr]_vars

\* two rows are out, and a set on one of them has stored an entry the other
\* row does not have
C15_Witness ==
    /\ Len(loaded) = 2
    /\ last.op = "row_set" /\ last.err = "none"
    /\ loaded[1].values # loaded[2].values
    /\ loaded[last.rix].values # <<>>

---------------------------------------------------------------------------
(* C16 *)

\* the stored entries of a mapping but that of the column fix, in their order
Without(values, fix) == SelectSeq(values, LAMBDA e : e[1] # fix)

\* C16: a delete of an in-range column does not raise; on a column without
\* a stored entry it leaves the whole mapping as it was; on a column with a
\* stored entry it removes that entry and no other, so that a get of the column
\* returns its default and every other cell is as it was.
C16_Delete ==
    [][(last'.op = "del" /\ ~OutOfRange(row, last'.fix)) =>
          /\ last'.err = "none"
          /\ ~DictHas(row.values, last'.fix) => row' = row
          /\ row'.values = Without(row.values, last'.fix)
          /\ getitem(row', last'.fix)
                = [err |-> "none", val |-> row.defaults[last'.fix + 1]]
          /\ SameElsewhere(row, row', last'.fix)]_vars

\* a delete of an in-range column has returned, on a row that holds an entry
\* at another column
C16_Witness ==
    /\ last.op = "del" /\ last.err = "none"
    /\ ~OutOfRange(row, last.fix)
    /\ row.values # <<>>

---------------------------------------------------------------------------
(* C17 *)

\* C17: in every schema a SparseRow, a SparseWriter or a SparseLoader holds,
\* however it was constructed, the default of a numeric column is a float and
\* the default of a text column is a text.
C17_TypedDefaults ==
    /\ row.st = "ok" => TypedSchema(row)
    /\ (wr.st # "none" /\ ~wr.failed) => TypedSchema(wr)
    /\ (ld.st # "none" /\ ~ld.failed) => TypedSchema(ld)
    /\ \A i \in 1..Len(loaded) : TypedSchema(loaded[i])

---------------------------------------------------------------------------
(* C18 *)

\* C18: a set or a delete on a row that raises, for a column outside [0, N) or
\* for a value that does not convert to a float on a numeric column, leaves
\* the row, its stored mapping included, exactly as it was before the call.
C18_FailureKeeps ==
    [][(last'.op \in {"set", "del"} /\ last'.err # "none") => row' = row]_vars

\* a set has failed on the conversion of its value, at a column of a row that
\* holds a stored entry there
C18_Witness ==
    /\ last.op = "set" /\ last.err = "ValueError"
    /\ DictHas(row.values, last.fix)

---------------------------------------------------------------------------
(* C19 *)

\* C19: once a SparseWriter is closed, by close() or by leaving its with
\* block, every later write_dense_row and write_sparse_row raises and adds no
\* line, and a further close() returns without changing the writer or the
\* written lines.
C19_ClosedWriter ==
    [][(wr.st = "closed" /\ ~wr.failed) =>
          /\ file' = file
          /\ wr' = wr
          /\ last'.op \in {"write_dense_row", "write_sparse_row"}
                => last'.err # "none"
          /\ last'.op \in {"writer_close", "writer_exit"} => last'.err = "none"]_vars

\* a write_sparse_row has failed on a writer closed after a row was written
C19_Witness ==
    /\ wr.st = "closed" /\ ~wr.failed
    /\ last.op = "write_sparse_row" /\ last.err = "AttributeError"
    /\ Len(calls) > 0 /\ Len(file) = Len(calls) + 2

===========================================================================
